---- MODULE Spec2Model ----
(***************************************************************************)
(* Model of concurrency_limit/context_managers.py: the limit() context     *)
(* manager (slot acquisition, scoped block, release) and limit_clean()     *)
(* (the stale-slot reaper), both acting on one Redis hash (lock_key) that  *)
(* maps a lock id to the text of an expiry timestamp and carries a         *)
(* key-level time-to-live.                                                 *)
(*                                                                         *)
(* Time is counted in ticks; Res ticks make one wall-clock second.         *)
(* time.monotonic() is `now`, int(time.time()) is WallSeconds.             *)
(***************************************************************************)
EXTENDS Integers, Sequences, FiniteSets, TLC

\* ---------------------------------------------------------------- bounds
MaxTime == 3
MaxLimit == 2
Res == 2
Epoch == 9
OpMax == 1

\* The processes of the model: three limit() callers, each making one call
\* (its lock id is its own name, a fresh uuid4), and one limit_clean() caller.
Callers == {1, 2, 3}
Reapers == {1}

\* ------------------------------------------------- limit configuration
lock_timeout == 1
lock_interval == 1
lock_expire == 1

VARIABLES
    now,         \* time.monotonic(), in ticks
    record,      \* the hash at lock_key: lock id -> stored text of the expiry
    ttl,         \* tick at which the store deletes the whole key, or NoTTL
    lock_limit,  \* limit_configuration.limit, the same for every caller
    pc,          \* position of each limit() caller
    start,       \* start = time.monotonic() of each call
    wake,        \* tick the current attempt counts from (start, or end of sleep)
    count,       \* the local `count` of the pipeline, until the block or the except clause ends
    outcome,     \* how the call left the loop: "ok", "raised", "timeout"
    retried,     \* the caller has had an attempt rejected
    expired,     \* some entry was removed by the reaper or by the key's TTL
    rpc,         \* position of each limit_clean() caller
    current,     \* its `current`
    scan,        \* ids hscan_iter handed it that its loop has yet to delete
    rcount,      \* its `count`
    record0      \* the hash as limit_clean() is given it (SpecClean), else empty

vars == <<now, record, ttl, lock_limit, pc, start, wake, count, outcome,
          retried, expired, rpc, current, scan, rcount, record0>>

callerVars == <<lock_limit, pc, start, wake, count, outcome, retried>>
reaperVars == <<rpc, current, scan, rcount, record0>>

NoTTL == -1
Empty == [i \in {} |-> <<>>]

\* ------------------------------------------------------ text conversion
DigitChars == <<"0", "1", "2", "3", "4", "5", "6", "7", "8", "9">>

\* str(n) of a Python int, as redis-py encodes an int field value
RECURSIVE str(_)
str(n) ==
    IF n < 0 THEN <<"-">> \o str(-n)
    ELSE IF n < 10 THEN <<DigitChars[n + 1]>>
    ELSE Append(str(n \div 10), DigitChars[(n % 10) + 1])

IsDigit(ch) == \E d \in 1..10 : DigitChars[d] = ch
DigitVal(ch) == (CHOOSE d \in 1..10 : DigitChars[d] = ch) - 1

RECURSIVE DigitsVal(_)
DigitsVal(s) ==
    IF Len(s) = 0 THEN 0
    ELSE 10 * DigitsVal(SubSeq(s, 1, Len(s) - 1)) + DigitVal(s[Len(s)])

AllDigits(s) == Len(s) > 0 /\ \A i \in 1..Len(s) : IsDigit(s[i])

\* int(text): the value, or a ValueError
int(s) ==
    IF AllDigits(s) THEN [ok |-> TRUE, val |-> DigitsVal(s)]
    ELSE IF Len(s) > 1 /\ s[1] = "-" /\ AllDigits(Tail(s))
         THEN [ok |-> TRUE, val |-> 0 - DigitsVal(Tail(s))]
    ELSE [ok |-> FALSE, val |-> 0]

\* ------------------------------------------------------------ the store
WallSeconds == Epoch + (now \div Res)

HLen(rec) == Cardinality(DOMAIN rec)

HSet(rec, id, v) == [i \in (DOMAIN rec) \cup {id} |-> IF i = id THEN v ELSE rec[i]]

HDel(rec, id) == [i \in (DOMAIN rec) \ {id} |-> rec[i]]

\* a key whose hash has no field left does not exist, and so has no TTL
TTLAfter(rec, t) == IF DOMAIN rec = {} THEN NoTTL ELSE t

\* ------------------------------------------------------------- limit()
Active(c) == pc[c] \notin {"idle", "done"}

\* the call has yielded to the scoped block (it may have left it since)
Entered(c) ==
    \/ pc[c] = "cs"
    \/ pc[c] \in {"finally", "done"} /\ outcome[c] \in {"ok", "raised"}

\* Callers are alike, so they begin in the order of their names; a call begins
\* early enough for its timeout and one more sleep to fit below MaxTime.
Start(c) ==
    /\ pc[c] = "idle"
    /\ \A d \in Callers : d < c => pc[d] # "idle"
    /\ now + lock_timeout + lock_interval <= MaxTime
    /\ pc' = [pc EXCEPT ![c] = "hlen"]
    /\ start' = [start EXCEPT ![c] = now]
    /\ wake' = [wake EXCEPT ![c] = now]
    /\ UNCHANGED <<now, record, ttl, lock_limit, count, outcome, retried,
                   expired, reaperVars>>

\* PreCheck with the bound off by one
PreCheck_OffByOne(c) ==
    /\ pc[c] = "hlen"
    /\ pc' = [pc EXCEPT ![c] = IF HLen(record) >= lock_limit - 1 THEN "except" ELSE "pipe"]
    /\ UNCHANGED <<now, record, ttl, lock_limit, start, wake, count, outcome,
                   retried, expired, reaperVars>>

PreCheck(c) ==
    /\ pc[c] = "hlen"
    /\ pc' = [pc EXCEPT ![c] = IF HLen(record) >= lock_limit THEN "except" ELSE "pipe"]
    /\ UNCHANGED <<now, record, ttl, lock_limit, start, wake, count, outcome,
                   retried, expired, reaperVars>>

\* Pipeline whose key time-to-live is one tick short of lock_expire
Pipeline_ShortTTL(c) ==
    /\ pc[c] = "pipe"
    /\ LET rec == HSet(record, c, str(WallSeconds + lock_expire))
       IN /\ record' = rec
          /\ ttl' = now + lock_expire * Res - 1
          /\ count' = [count EXCEPT ![c] = HLen(rec)]
          /\ pc' = [pc EXCEPT ![c] = IF HLen(rec) > lock_limit THEN "rollback" ELSE "cs"]
          /\ wake' = IF HLen(rec) > lock_limit THEN wake ELSE [wake EXCEPT ![c] = 0]
    /\ UNCHANGED <<now, lock_limit, start, outcome, retried,
                   expired, reaperVars>>

\* Pipeline that also tests the timeout after a count within the limit
Pipeline_Deadline(c) ==
    /\ pc[c] = "pipe"
    /\ LET rec == HSet(record, c, str(WallSeconds + lock_expire))
           late == now - start[c] > lock_timeout
       IN /\ record' = IF late THEN HDel(rec, c) ELSE rec
          /\ ttl' = TTLAfter(record', now + lock_expire * Res)
          /\ count' = [count EXCEPT ![c] = HLen(rec)]
          /\ pc' = [pc EXCEPT ![c] =
                      IF late THEN "except"
                      ELSE IF HLen(rec) > lock_limit THEN "rollback" ELSE "cs"]
          /\ wake' = IF HLen(rec) > lock_limit \/ late
                     THEN wake ELSE [wake EXCEPT ![c] = 0]
    /\ UNCHANGED <<now, lock_limit, start, outcome, retried, expired, reaperVars>>

\* Pipeline without the re-check of line 77
Pipeline_NoVerify(c) ==
    /\ pc[c] = "pipe"
    /\ LET rec == HSet(record, c, str(WallSeconds + lock_expire))
       IN /\ record' = rec
          /\ ttl' = now + lock_expire * Res
          /\ count' = [count EXCEPT ![c] = HLen(rec)]
          /\ pc' = [pc EXCEPT ![c] = "cs"]
          /\ wake' = [wake EXCEPT ![c] = 0]
    /\ UNCHANGED <<now, lock_limit, start, outcome, retried, expired, reaperVars>>

Pipeline(c) ==
    /\ pc[c] = "pipe"
    /\ LET rec == HSet(record, c, str(WallSeconds + lock_expire))
       IN /\ record' = rec
          /\ ttl' = now + lock_expire * Res
          /\ count' = [count EXCEPT ![c] = HLen(rec)]
          /\ pc' = [pc EXCEPT ![c] = IF HLen(rec) > lock_limit THEN "rollback" ELSE "cs"]
          /\ wake' = IF HLen(rec) > lock_limit THEN wake ELSE [wake EXCEPT ![c] = 0]
    /\ UNCHANGED <<now, lock_limit, start, outcome, retried,
                   expired, reaperVars>>

\* Rollback that looks again: the entry is given up only if the record is
\* still above the limit, otherwise the caller keeps it and enters the block
Rollback_IfStillOver(c) ==
    /\ pc[c] = "rollback"
    /\ IF HLen(record) > lock_limit
       THEN /\ record' = HDel(record, c)
            /\ pc' = [pc EXCEPT ![c] = "except"]
            /\ UNCHANGED wake
       ELSE /\ record' = record
            /\ pc' = [pc EXCEPT ![c] = "cs"]
            /\ wake' = [wake EXCEPT ![c] = 0]
    /\ ttl' = TTLAfter(record', ttl)
    /\ UNCHANGED <<now, lock_limit, start, count, outcome, retried,
                   expired, reaperVars>>

\* Rollback that raises without the hdel of line 78
Rollback_NoDelete(c) ==
    /\ pc[c] = "rollback"
    /\ pc' = [pc EXCEPT ![c] = "except"]
    /\ UNCHANGED <<now, record, ttl, lock_limit, start, wake, count, outcome,
                   retried, expired, reaperVars>>

Rollback(c) ==
    /\ pc[c] = "rollback"
    /\ record' = HDel(record, c)
    /\ ttl' = TTLAfter(record', ttl)
    /\ pc' = [pc EXCEPT ![c] = "except"]
    /\ UNCHANGED <<now, lock_limit, start, wake, count, outcome, retried,
                   expired, reaperVars>>

\* Except with the timeout test one interval late
Except_Late(c) ==
    /\ pc[c] = "except"
    /\ retried' = [retried EXCEPT ![c] = TRUE]
    /\ LET elapsed == now - start[c]
       IN IF elapsed > lock_timeout + lock_interval
          THEN /\ pc' = [pc EXCEPT ![c] = "finally"]
               /\ outcome' = [outcome EXCEPT ![c] = "timeout"]
               /\ wake' = [wake EXCEPT ![c] = 0]
          ELSE /\ pc' = [pc EXCEPT ![c] = "sleep"]
               /\ wake' = [wake EXCEPT ![c] = now + lock_interval]
               /\ outcome' = outcome
    /\ count' = [count EXCEPT ![c] = 0]
    /\ UNCHANGED <<now, record, ttl, lock_limit, start, expired, reaperVars>>

\* Except that never gives up
Except_NoTimeout(c) ==
    /\ pc[c] = "except"
    /\ retried' = [retried EXCEPT ![c] = TRUE]
    /\ pc' = [pc EXCEPT ![c] = "sleep"]
    /\ wake' = [wake EXCEPT ![c] = now + lock_interval]
    /\ count' = [count EXCEPT ![c] = 0]
    /\ UNCHANGED <<now, record, ttl, lock_limit, start, outcome, expired,
                   reaperVars>>

Except(c) ==
    /\ pc[c] = "except"
    /\ retried' = [retried EXCEPT ![c] = TRUE]
    /\ LET elapsed == now - start[c]
       IN IF elapsed > lock_timeout
          THEN /\ pc' = [pc EXCEPT ![c] = "finally"]
               /\ outcome' = [outcome EXCEPT ![c] = "timeout"]
               /\ wake' = [wake EXCEPT ![c] = 0]
          ELSE /\ pc' = [pc EXCEPT ![c] = "sleep"]
               /\ wake' = [wake EXCEPT ![c] = now + lock_interval]
               /\ outcome' = outcome
    /\ count' = [count EXCEPT ![c] = 0]
    /\ UNCHANGED <<now, record, ttl, lock_limit, start, expired, reaperVars>>

Wake(c) ==
    /\ pc[c] = "sleep"
    /\ now >= wake[c]
    /\ pc' = [pc EXCEPT ![c] = "hlen"]
    /\ UNCHANGED <<now, record, ttl, lock_limit, start, wake, count, outcome,
                   retried, expired, reaperVars>>

ExitScope(c) ==
    /\ pc[c] = "cs"
    /\ \E o \in {"ok", "raised"} : outcome' = [outcome EXCEPT ![c] = o]
    /\ pc' = [pc EXCEPT ![c] = "finally"]
    /\ count' = [count EXCEPT ![c] = 0]
    /\ start' = [start EXCEPT ![c] = 0]
    /\ UNCHANGED <<now, record, ttl, lock_limit, wake, retried,
                   expired, reaperVars>>

\* The process of a caller dies inside the scoped block: the finally clause
\* never runs and the entry stays in the record.
Crash(c) ==
    /\ pc[c] = "cs"
    /\ pc' = [pc EXCEPT ![c] = "crashed"]
    /\ count' = [count EXCEPT ![c] = 0]
    /\ start' = [start EXCEPT ![c] = 0]
    /\ UNCHANGED <<now, record, ttl, lock_limit, wake, outcome, retried,
                   expired, reaperVars>>

\* Release that drops the whole record instead of the caller's own field
Release_DeleteKey(c) ==
    /\ pc[c] = "finally"
    /\ record' = Empty
    /\ ttl' = TTLAfter(record', ttl)
    /\ pc' = [pc EXCEPT ![c] = "done"]
    /\ start' = [start EXCEPT ![c] = 0]
    /\ wake' = [wake EXCEPT ![c] = 0]
    /\ retried' = [retried EXCEPT ![c] = FALSE]
    /\ UNCHANGED <<now, lock_limit, count, outcome, expired, reaperVars>>

\* Release as a step after the yield instead of a finally: skipped when the
\* scoped block raises
Release_NotOnRaise(c) ==
    /\ pc[c] = "finally"
    /\ record' = IF outcome[c] = "raised" THEN record ELSE HDel(record, c)
    /\ ttl' = TTLAfter(record', ttl)
    /\ pc' = [pc EXCEPT ![c] = "done"]
    /\ start' = [start EXCEPT ![c] = 0]
    /\ wake' = [wake EXCEPT ![c] = 0]
    /\ retried' = [retried EXCEPT ![c] = FALSE]
    /\ UNCHANGED <<now, lock_limit, count, outcome, expired, reaperVars>>

Release(c) ==
    /\ pc[c] = "finally"
    /\ record' = HDel(record, c)
    /\ ttl' = TTLAfter(record', ttl)
    /\ pc' = [pc EXCEPT ![c] = "done"]
    /\ start' = [start EXCEPT ![c] = 0]
    /\ wake' = [wake EXCEPT ![c] = 0]
    /\ retried' = [retried EXCEPT ![c] = FALSE]
    /\ UNCHANGED <<now, lock_limit, count, outcome, expired, reaperVars>>

\* --------------------------------------------------------- limit_clean()
\* clean_lock with a strict comparison
clean_lock_Strict(cur, scan_lock_expire) ==
    LET e == int(scan_lock_expire)
    IN IF e.ok THEN cur > e.val ELSE TRUE

clean_lock(cur, scan_lock_expire) ==
    LET e == int(scan_lock_expire)
    IN IF e.ok THEN cur >= e.val ELSE TRUE

\* Lines 114-119: read the clock, then scan. Which entries the loop deletes is
\* settled by `current` and the scanned values alone, so scan keeps the ids of
\* the entries the loop will find stale. An entry written between the clock
\* read and the scan expires after `current`, so the two are one step here.
\* With nothing stale the loop makes no store call and the count is returned.
CleanStart(r) ==
    /\ rpc[r] = "idle"
    /\ LET cur == WallSeconds
           stale == {id \in DOMAIN record : clean_lock(cur, record[id])}
       IN /\ current' = [current EXCEPT ![r] = cur]
          /\ scan' = [scan EXCEPT ![r] = stale]
          /\ rpc' = [rpc EXCEPT ![r] = IF stale = {} THEN "return" ELSE "loop"]
    /\ rcount' = [rcount EXCEPT ![r] = 0]
    /\ UNCHANGED <<now, record, ttl, callerVars, expired, record0>>

\* hdel's result ignored: every scanned stale id counts as removed
CleanStep_CountAll(r) ==
    /\ rpc[r] = "loop"
    /\ \E scan_lock_id \in scan[r] :
         /\ scan' = [scan EXCEPT ![r] = @ \ {scan_lock_id}]
         /\ rpc' = [rpc EXCEPT ![r] = IF scan[r] = {scan_lock_id} THEN "return" ELSE "loop"]
         /\ record' = HDel(record, scan_lock_id)
         /\ ttl' = TTLAfter(record', ttl)
         /\ rcount' = [rcount EXCEPT ![r] = @ + 1]
         /\ expired' = (expired \/ scan_lock_id \in DOMAIN record)
    /\ UNCHANGED <<now, callerVars, current, record0>>

\* One turn of the loop on a stale entry: hdel, count += its result.
CleanStep(r) ==
    /\ rpc[r] = "loop"
    /\ \E scan_lock_id \in scan[r] :
         /\ scan' = [scan EXCEPT ![r] = @ \ {scan_lock_id}]
         /\ rpc' = [rpc EXCEPT ![r] = IF scan[r] = {scan_lock_id} THEN "return" ELSE "loop"]
         /\ record' = HDel(record, scan_lock_id)
         /\ ttl' = TTLAfter(record', ttl)
         /\ rcount' = [rcount EXCEPT ![r] =
                         @ + IF scan_lock_id \in DOMAIN record THEN 1 ELSE 0]
         /\ expired' = (expired \/ scan_lock_id \in DOMAIN record)
    /\ UNCHANGED <<now, callerVars, current, record0>>

\* the caller of limit_clean() has taken the result; it may call again
CleanDone(r) ==
    /\ rpc[r] = "return"
    /\ rpc' = [rpc EXCEPT ![r] = "idle"]
    /\ current' = [current EXCEPT ![r] = 0]
    /\ rcount' = [rcount EXCEPT ![r] = 0]
    /\ UNCHANGED <<now, record, ttl, callerVars, expired, scan, record0>>

\* ------------------------------------------------------------------ time
\* One tick passes. The store deletes the key once its time-to-live has run out.
Advance(horizon) ==
    /\ now < horizon
    /\ now' = now + 1
    /\ IF ttl # NoTTL /\ now + 1 >= ttl
       THEN /\ record' = Empty
            /\ ttl' = NoTTL
            /\ expired' = (expired \/ DOMAIN record # {})
       ELSE UNCHANGED <<record, ttl, expired>>
    /\ UNCHANGED <<callerVars, reaperVars>>

\* Time passes freely: a store call or a sleep may take any time.
Tick == Advance(MaxTime)

\* Timed runs: time.sleep(lock_interval) returns on time and the store calls of
\* one attempt (from the start of the call or the end of the sleep up to the
\* clock read of line 86) take at most OpMax ticks together.
InAttempt(c) == pc[c] \in {"hlen", "pipe", "rollback", "except", "sleep"}

TimedHorizon == MaxTime + OpMax

TickTimed ==
    /\ \A c \in Callers : InAttempt(c) => now + 1 <= wake[c] + OpMax
    /\ Advance(TimedHorizon)

\* ------------------------------------------------------- specifications
Init ==
    /\ now = 0
    /\ record = Empty
    /\ ttl = NoTTL
    /\ lock_limit \in 1..MaxLimit
    /\ pc = [c \in Callers |-> "idle"]
    /\ start = [c \in Callers |-> 0]
    /\ wake = [c \in Callers |-> 0]
    /\ count = [c \in Callers |-> 0]
    /\ outcome = [c \in Callers |-> "none"]
    /\ retried = [c \in Callers |-> FALSE]
    /\ expired = FALSE
    /\ rpc = [r \in Reapers |-> "idle"]
    /\ current = [r \in Reapers |-> 0]
    /\ scan = [r \in Reapers |-> {}]
    /\ rcount = [r \in Reapers |-> 0]
    /\ record0 = Empty

Next ==
    \/ \E c \in Callers : Start(c)
    \/ \E c \in Callers : PreCheck(c)
    \/ \E c \in Callers : Pipeline(c)
    \/ \E c \in Callers : Rollback(c)
    \/ \E c \in Callers : Except(c)
    \/ \E c \in Callers : Wake(c)
    \/ \E c \in Callers : ExitScope(c)
    \/ \E c \in Callers : Release(c)
    \/ \E r \in Reapers : CleanStart(r)
    \/ \E r \in Reapers : CleanStep(r)
    \/ \E r \in Reapers : CleanDone(r)
    \/ Tick

Spec == Init /\ [][Next]_vars

\* The same program under the timing assumptions of TickTimed.
LimitStep ==
    \/ \E c \in Callers : Start(c)
    \/ \E c \in Callers : PreCheck(c)
    \/ \E c \in Callers : Pipeline(c)
    \/ \E c \in Callers : Rollback(c)
    \/ \E c \in Callers : Except(c)
    \/ \E c \in Callers : Wake(c)
    \/ \E c \in Callers : ExitScope(c)
    \/ \E c \in Callers : Release(c)

CleanStepAny ==
    \/ \E r \in Reapers : CleanStart(r)
    \/ \E r \in Reapers : CleanStep(r)
    \/ \E r \in Reapers : CleanDone(r)

NextTimed ==
    \/ LimitStep
    \/ CleanStepAny
    \/ TickTimed

SpecTimed == Init /\ [][NextTimed]_vars

\* Two callers at limit 1 next to two concurrent runs of limit_clean().
RaceCallers == {1, 2}

CleanRunners == {1, 2}

InitReap ==
    /\ now = 0
    /\ record = Empty
    /\ ttl = NoTTL
    /\ lock_limit = 1
    /\ pc = [c \in Callers |-> "idle"]
    /\ start = [c \in Callers |-> 0]
    /\ wake = [c \in Callers |-> 0]
    /\ count = [c \in Callers |-> 0]
    /\ outcome = [c \in Callers |-> "none"]
    /\ retried = [c \in Callers |-> FALSE]
    /\ expired = FALSE
    /\ rpc = [r \in CleanRunners |-> "idle"]
    /\ current = [r \in CleanRunners |-> 0]
    /\ scan = [r \in CleanRunners |-> {}]
    /\ rcount = [r \in CleanRunners |-> 0]
    /\ record0 = Empty

NextReap ==
    \/ \E c \in RaceCallers : Start(c)
    \/ \E c \in RaceCallers : PreCheck(c)
    \/ \E c \in RaceCallers : Pipeline(c)
    \/ \E c \in RaceCallers : Rollback(c)
    \/ \E c \in RaceCallers : Except(c)
    \/ \E c \in RaceCallers : Wake(c)
    \/ \E c \in RaceCallers : ExitScope(c)
    \/ \E c \in RaceCallers : Release(c)
    \/ \E r \in CleanRunners : CleanStart(r)
    \/ \E r \in CleanRunners : CleanStep(r)
    \/ \E r \in CleanRunners : CleanDone(r)
    \/ Tick

SpecReap == InitReap /\ [][NextReap]_vars

\* limit_clean() called once on a hash nobody else touches: the hash holds any
\* mix of past, present and future expiries and of texts int() rejects.
CleanValues ==
    {str(Epoch - 1), str(Epoch), str(Epoch + 1), str(Epoch + MaxTime),
     <<"x">>, <<>>, <<"-", "1">>}

InitClean ==
    /\ now = 0
    /\ \E ids \in SUBSET Callers : record \in [ids -> CleanValues]
    /\ record0 = record
    /\ ttl = NoTTL
    /\ lock_limit = 1
    /\ pc = [c \in Callers |-> "idle"]
    /\ start = [c \in Callers |-> 0]
    /\ wake = [c \in Callers |-> 0]
    /\ count = [c \in Callers |-> 0]
    /\ outcome = [c \in Callers |-> "none"]
    /\ retried = [c \in Callers |-> FALSE]
    /\ expired = FALSE
    /\ rpc = [r \in Reapers |-> "idle"]
    /\ current = [r \in Reapers |-> 0]
    /\ scan = [r \in Reapers |-> {}]
    /\ rcount = [r \in Reapers |-> 0]

NextClean ==
    \/ \E r \in Reapers : CleanStart(r)
    \/ \E r \in Reapers : CleanStep(r)
    \/ Tick

SpecClean == InitClean /\ [][NextClean]_vars

\* Store calls complete, sleeps end and time advances.
Progress(c) ==
    PreCheck(c) \/ Pipeline(c) \/ Rollback(c) \/ Except(c) \/ Wake(c)

NextLive ==
    \/ LimitStep
    \/ Tick

SpecLive ==
    /\ Init /\ [][NextLive]_vars
    /\ WF_vars(Tick)
    /\ \A c \in Callers : WF_vars(Progress(c))

\* Two callers at limit 1, either of which may die inside the scoped block,
\* with limit_clean() called again and again; time runs long enough for an
\* entry inserted by MaxTime to expire.
CrashHorizon == MaxTime + lock_expire * Res

TickCrash == Advance(CrashHorizon)

InitCrash == Init /\ lock_limit = 1

NextCrash ==
    \/ \E c \in RaceCallers : Start(c)
    \/ \E c \in RaceCallers : PreCheck(c)
    \/ \E c \in RaceCallers : Pipeline(c)
    \/ \E c \in RaceCallers : Rollback(c)
    \/ \E c \in RaceCallers : Except(c)
    \/ \E c \in RaceCallers : Wake(c)
    \/ \E c \in RaceCallers : ExitScope(c)
    \/ \E c \in RaceCallers : Crash(c)
    \/ \E c \in RaceCallers : Release(c)
    \/ CleanStepAny
    \/ TickCrash

SpecCrash ==
    /\ InitCrash /\ [][NextCrash]_vars
    /\ WF_vars(TickCrash)
    /\ WF_vars(CleanStepAny)
    /\ \A c \in RaceCallers : WF_vars(Progress(c))

\* ================================================================ claims
Min(a, b) == IF a < b THEN a ELSE b

InScope == {c \in Callers : pc[c] = "cs"}

\* entries whose owner passed the re-check of line 77 and has not released
Committed ==
    {c \in DOMAIN record : pc[c] \in {"cs", "finally"} /\ Entered(c)}

\* some holder has run its release
Released == \E c \in Callers : pc[c] = "done" /\ Entered(c)

\* C1: in every reachable state the number of committed slots (entries of the
\* record whose owner passed the verify step and has not yet released) is at
\* most the limit.
C1_CommittedAtMostLimit == Cardinality(Committed) <= lock_limit

\* a full house next to a racer that lost and is about to roll back
C1_Witness ==
    /\ lock_limit = 2
    /\ Cardinality(Committed) = 2
    /\ \E c \in Callers : pc[c] = "rollback"

\* C2: in every reachable state, whatever the callers, limit_clean(), the
\* key's time-to-live and the clock do, the number of callers inside the
\* scoped block is at most the limit.
C2_InScopeAtMostLimit == Cardinality(InScope) <= lock_limit

\* C3: once limit() has exited (block completed, block raised, or wait timed
\* out) the caller's own lock id is absent from the record.
C3_AbsentAfterExit ==
    \A c \in Callers : pc[c] = "done" => c \notin DOMAIN record

\* all three exit paths taken, with another holder's entry still in the record
C3_Witness ==
    /\ \E c \in Callers : pc[c] = "done" /\ outcome[c] = "raised"
    /\ \E c \in Callers : pc[c] = "done" /\ outcome[c] = "timeout"
    /\ \E c \in Callers : pc[c] = "cs" /\ c \in DOMAIN record

\* C4: with limit 1, once a holder whose block raised has exited and no other
\* call is under way, an acquirer's attempt is never rejected: its pre-check
\* passes and its pipeline leads into the scoped block, with no retry sleep
\* and no wait for the expiry or for limit_clean().
C4_NoRejectAfterRaise ==
    [][\A c \in Callers :
         ( /\ lock_limit = 1
           /\ \E h \in Callers \ {c} : pc[h] = "done" /\ outcome[h] = "raised"
           /\ \A o \in Callers \ {c} : ~Active(o)
           /\ pc[c] \in {"hlen", "pipe"}
           /\ pc'[c] # pc[c] )
         => pc'[c] \in {"pipe", "cs"}]_vars

\* the holder raised and has exited; the next caller is inside the block on
\* its first attempt, before the holder's entry could have expired
C4_Witness ==
    /\ lock_limit = 1
    /\ now = 0
    /\ \E h, c \in Callers :
          /\ pc[h] = "done" /\ outcome[h] = "raised"
          /\ pc[c] = "cs" /\ ~retried[c]
          /\ \A o \in Callers \ {c} : ~Active(o)
    /\ \A r \in Reapers : rpc[r] = "idle"

\* a strict bound on the time the store calls of one attempt take
Eps == OpMax + 1

\* the step in which the call of c raises ConcurrencyLimitExceededException
TimesOut(c) == pc[c] = "except" /\ pc'[c] = "finally"

\* the step in which the call of c yields to the scoped block
Enters(c) == pc[c] = "pipe" /\ pc'[c] = "cs"

\* C5: with limit 1, an acquirer enters the scoped block only when no other
\* entry is in the record at its insert, so against a slot held throughout it
\* can only fail; and when it fails, the time elapsed since the start of its
\* call is at least lock_timeout and less than lock_timeout + lock_interval
\* + Eps.
C5_TimeoutFidelity ==
    [][\A c \in Callers :
         /\ (lock_limit = 1 /\ Enters(c)) => DOMAIN record \subseteq {c}
         /\ TimesOut(c) =>
               /\ now - start[c] >= lock_timeout
               /\ now - start[c] < lock_timeout + lock_interval + Eps]_vars

\* the slot is still held and the second acquirer has just failed, as late as
\* the bound allows
C5_Witness ==
    /\ lock_limit = 1
    /\ \E h, c \in Callers :
          /\ pc[h] = "cs" /\ h \in DOMAIN record
          /\ pc[c] = "finally" /\ outcome[c] = "timeout"
          /\ now - start[c] = lock_timeout + lock_interval + Eps - 1

\* C6: every call that has begun eventually enters the scoped block or raises
\* the timeout error, whatever the other callers do.
C6_AcquisitionEnds ==
    \A c \in Callers :
        (pc[c] \in {"hlen", "pipe", "rollback", "except", "sleep"})
            ~> (pc[c] \in {"cs", "finally", "done"})

\* one caller gave up after retrying while another still holds the slot
C6_Witness ==
    \E h, c \in Callers :
        /\ pc[h] = "cs" /\ h \in DOMAIN record
        /\ pc[c] = "done" /\ outcome[c] = "timeout"

\* C7 as stated: no caller has waited longer than lock_timeout when it enters
\* the scoped block or fails with the timeout error.
C7_WaitAtMostTimeout ==
    [][\A c \in Callers :
         (Enters(c) \/ TimesOut(c)) => now - start[c] <= lock_timeout]_vars

\* C7 as amended: no caller has waited lock_timeout + lock_interval + Eps or
\* longer when it enters the scoped block or fails with the timeout error.
C7_WaitBounded ==
    [][\A c \in Callers :
         (Enters(c) \/ TimesOut(c))
            => now - start[c] < lock_timeout + lock_interval + Eps]_vars

\* one caller has failed and another is about to enter the scoped block, each
\* more than lock_timeout after the start of its call
C7_Witness ==
    \E c, d \in Callers :
        /\ pc[c] = "finally" /\ outcome[c] = "timeout"
        /\ now - start[c] > lock_timeout
        /\ pc[d] = "pipe" /\ HLen(record) < lock_limit
        /\ now - start[d] > lock_timeout

FirstDone(c) == pc[c] \notin {"idle", "hlen", "pipe"} \/ retried[c]

EnteredFirst == {c \in Callers : pc[c] \in {"cs", "finally"} /\ Entered(c) /\ ~retried[c]}

EnteredLater == {c \in Callers : pc[c] \in {"cs", "finally"} /\ Entered(c) /\ retried[c]}

C9_BoundedOvershoot ==
    HLen(record) > lock_limit => \E c \in DOMAIN record : pc[c] = "rollback"

\* limit 1 with three entries: two losers have inserted and not rolled back
C9_Witness ==
    /\ lock_limit = 1
    /\ HLen(record) = 3
    /\ Cardinality({c \in Callers : pc[c] = "rollback"}) = 2

\* an expiry text that is unparsable, or lies at or before the second `cur`
Stale(cur, text) == ~int(text).ok \/ int(text).val <= cur

StaleIds(cur) == {id \in DOMAIN record0 : Stale(cur, record0[id])}

\* C10: when limit_clean() returns from a hash nobody else touched, the hash
\* holds exactly the entries it was given whose expiry parses and lies after
\* the time of the call, unchanged, and the result equals the number of
\* entries removed.
C10_CleanExact ==
    \A r \in Reapers :
        rpc[r] = "return" =>
            /\ DOMAIN record = DOMAIN record0 \ StaleIds(current[r])
            /\ \A id \in DOMAIN record : record[id] = record0[id]
            /\ rcount[r] = Cardinality(StaleIds(current[r]))

\* given one expired, one corrupt and one future entry, it returned 2 and
\* left the future entry
C10_Witness ==
    \E r \in Reapers :
        /\ rpc[r] = "return"
        /\ rcount[r] = 2
        /\ \E a, b, c \in DOMAIN record0 :
              /\ record0[a] = str(current[r] - 1)
              /\ record0[b] = <<"x">>
              /\ record0[c] = str(current[r] + 1)
              /\ DOMAIN record = {c}

\* the ids that the step of a reaper hands to hdel (line 126)
Reaped(r) == IF rpc[r] = "loop" THEN scan[r] \ scan'[r] ELSE {}

\* C11: limit_clean() deletes an entry only on expiry: at the moment it
\* deletes a lock id, the entry then stored under that id is unparsable or has
\* an expiry at or before the current time; it never removes an entry whose
\* expiry is still in the future, such as that of a caller inside the block.
C11_ReapOnlyExpired ==
    [][\A r \in Reapers : \A id \in Reaped(r) \cap DOMAIN record :
          Stale(WallSeconds, record[id])]_vars

\* the step in which the finally clause of c runs its hdel (line 100)
Releases(c) == pc[c] = "finally" /\ pc'[c] = "done"

\* C12: the release is idempotent and touches at most the caller's own lock
\* id: it always completes, also when the id is already absent, every other
\* entry is left as it was, and no entry appears.
C12_ReleaseOwnIdOnly ==
    [][\A c \in Callers : Releases(c) =>
          /\ DOMAIN record \ {c} = DOMAIN record'
          /\ \A id \in DOMAIN record' : record'[id] = record[id]]_vars

\* a caller that timed out has run its release with its id absent, next to a
\* full record of two other entries
C12_Witness ==
    /\ lock_limit = 2
    /\ HLen(record) = 2
    /\ \E c \in Callers : pc[c] = "done" /\ outcome[c] = "timeout"

\* C13: the value limit_clean() returns counts the entries this very run
\* removed: in each turn of its loop the count grows by exactly the number of
\* entries that left the record in that turn, so an entry already deleted by a
\* release, a rollback, the key's expiry or another run is not counted, and two
\* concurrent runs never both count one entry.
C13_CountsOwnRemovals ==
    [][\A r \in DOMAIN rpc :
          (rpc[r] = "loop" /\ scan'[r] # scan[r])
             => /\ rcount'[r] - rcount[r] = HLen(record) - HLen(record')
                /\ \A q \in DOMAIN rpc \ {r} : rcount'[q] = rcount[q]]_vars

\* caller c alone has inserted and is still in the block; one run has removed
\* its entry and returned 1, the other run scanned the same id before that and
\* is about to hdel it
C13_Witness ==
    \E r, q \in DOMAIN rpc : \E c \in Callers :
        /\ r # q
        /\ rpc[r] = "return" /\ rcount[r] = 1
        /\ rpc[q] = "loop" /\ scan[q] = {c} /\ rcount[q] = 0
        /\ pc[c] = "cs" /\ c \notin DOMAIN record
        /\ \A d \in Callers \ {c} : pc[d] = "idle"

\* C14: a caller in its retry-interval sleep holds nothing: its own lock id is
\* absent from the record, whether the pre-check or the re-check rejected it.
C14_SleeperHoldsNothing ==
    \A c \in Callers : pc[c] = "sleep" => c \notin DOMAIN record

\* a caller asleep next to a full record while another rejected caller has
\* rolled back and not yet reached its sleep
C14_Witness ==
    /\ HLen(record) = lock_limit
    /\ \E c, d \in Callers :
          /\ pc[c] = "sleep"
          /\ pc[d] = "except" /\ count[d] > lock_limit

\* C15: the count handed to the scoped block is the number of entries in the
\* record right after the caller's own insert, its own entry included, and it
\* is at least 1 and at most the limit.
C15_YieldedCount ==
    /\ [](\A c \in Callers :
            pc[c] = "cs" => (1 <= count[c] /\ count[c] <= lock_limit))
    /\ [][\A c \in Callers :
            Enters(c) => (c \in DOMAIN record' /\ count'[c] = HLen(record'))]_vars

\* two callers in the block at limit 2, handed 1 and 2
C15_Witness ==
    /\ lock_limit = 2
    /\ \E c, d \in Callers :
          /\ pc[c] = "cs" /\ count[c] = 1
          /\ pc[d] = "cs" /\ count[d] = 2

\* C16: an entry is never changed between its creation and its deletion: an
\* insert finds the caller's own id absent, the value it stores reads back as
\* the insert second plus lock_expire, and no step alters the value stored
\* under an id that stays in the record.
C16_EntryNeverMutated ==
    /\ [](\A c \in Callers : pc[c] = "pipe" => c \notin DOMAIN record)
    /\ [][/\ \A id \in DOMAIN record \cap DOMAIN record' :
               record'[id] = record[id]
          /\ \A id \in DOMAIN record' \ DOMAIN record :
               /\ int(record'[id]).ok
               /\ int(record'[id]).val = WallSeconds + lock_expire]_vars

\* a lock id reused by a retry: limit_clean() has scanned an older, expired
\* entry under the id of a caller whose present entry is not expired
C16_Witness ==
    \E c \in Callers : \E r \in DOMAIN rpc :
        /\ pc[c] = "cs" /\ retried[c]
        /\ c \in DOMAIN record /\ c \in scan[r]
        /\ ~Stale(current[r], record[c])

\* C17: after a holder has died inside the scoped block, a limit_clean() run
\* that reads a time at or after the entry's expiry leaves the record without
\* that entry, the entry is eventually removed, and with limit 1 an acquirer
\* that then makes an attempt enters the scoped block.
C17_CrashRecovery ==
    /\ [](\A h \in RaceCallers : \A r \in Reapers :
            (pc[h] = "crashed" /\ rpc[r] = "return" /\ h \in DOMAIN record)
               => ~Stale(current[r], record[h]))
    /\ \A h \in RaceCallers :
          (pc[h] = "crashed" /\ now + lock_expire * Res <= CrashHorizon)
              ~> (h \notin DOMAIN record)
    /\ \A h \in RaceCallers : \A c \in RaceCallers \ {h} :
          (pc[h] = "crashed" /\ h \notin DOMAIN record /\ pc[c] \in {"hlen", "pipe"})
              ~> (pc[c] = "cs")

\* the dead holder's entry was removed by the limit_clean() run that has just
\* returned 1, and the acquirer that had been rejected is inside the block
C17_Witness ==
    \E h, c \in RaceCallers : \E r \in Reapers :
        /\ pc[h] = "crashed" /\ h \notin DOMAIN record
        /\ rpc[r] = "return" /\ rcount[r] = 1
        /\ pc[c] = "cs" /\ retried[c] /\ c \in DOMAIN record
        /\ ~Stale(current[r], record[c])

\* the step in which c gives up the entry of an attempt that lost the re-check
RollsBack(c) == pc[c] = "rollback" /\ pc'[c] # "rollback"

\* C18: every caller that lost the re-check rolls back, whatever the record
\* holds by then: its step removes its own entry and leads to the except
\* clause, also when a release has meanwhile brought the record within the
\* limit. So the record can fall below the limit while rejected callers wait.
C18_RollbackUnconditional ==
    [][\A c \in Callers : RollsBack(c) =>
          /\ pc'[c] = "except"
          /\ record' = HDel(record, c)
          /\ c \in DOMAIN record => HLen(record') = HLen(record) - 1]_vars

\* under-fill at limit 1: the holder has released, the loser b (which counted
\* three entries: the holder's, a's and its own) has just rolled back, a is in
\* its retry sleep, and the record is empty without any entry having expired
C18_Witness ==
    /\ lock_limit = 1
    /\ HLen(record) < lock_limit
    /\ ~expired
    /\ \E h, a, b \in Callers :
          /\ pc[h] = "done" /\ Entered(h)
          /\ pc[a] = "sleep"
          /\ pc[b] = "except" /\ count[b] = 3

\* C19: the outcomes of one call exclude each other: a call that has entered
\* the scoped block never attempts again and never raises the timeout error;
\* the timeout error is raised only from the except clause of a rejected
\* attempt with more than lock_timeout elapsed; and an attempt whose count is
\* within the limit enters the block however much time has elapsed.
C19_OutcomesExclusive ==
    [][\A c \in Callers :
         /\ pc[c] \in {"cs", "finally", "done"}
               => pc'[c] \in {"cs", "finally", "done"}
         /\ outcome[c] # "none" => outcome'[c] = outcome[c]
         /\ (outcome[c] = "none" /\ outcome'[c] = "timeout")
               => /\ pc[c] = "except"
                  /\ now - start[c] > lock_timeout
         /\ (outcome[c] = "none" /\ outcome'[c] \in {"ok", "raised"})
               => pc[c] = "cs"
         /\ (pc[c] = "pipe" /\ pc'[c] # "pipe" /\ HLen(record') <= lock_limit)
               => pc'[c] = "cs"]_vars

\* a caller is inside the block although more than lock_timeout had elapsed
\* when its attempt passed (the second in which it inserted, read from its
\* entry, lies after the second in which its timeout ran out), next to a
\* caller that was rejected and timed out
C19_Witness ==
    \E c, d \in Callers :
        /\ pc[c] = "cs" /\ count[c] = 1
        /\ now - start[c] > lock_timeout
        /\ c \in DOMAIN record
        /\ int(record[c]).val - lock_expire - Epoch > (start[c] + lock_timeout) \div Res
        /\ pc[d] = "done" /\ outcome[d] = "timeout"

\* the tick at which the wall clock reaches the expiry second written in text
ExpiryTick(text) == (int(text).val - Epoch) * Res

\* C20: with one lock_expire for all callers the key's time-to-live never runs
\* out before an entry's own expiry: a record with entries has a time-to-live,
\* every entry's expiry is at or before the instant the store would delete the
\* key, and when the store deletes the key every entry in it has expired.
C20_KeyOutlivesEntries ==
    /\ [](DOMAIN record # {} =>
            /\ ttl # NoTTL
            /\ \A id \in DOMAIN record :
                  int(record[id]).ok /\ ExpiryTick(record[id]) <= ttl)
    /\ [][(now' # now /\ DOMAIN record' = {})
            => \A id \in DOMAIN record : Stale(Epoch + (now' \div Res), record[id])]_vars

\* two entries inserted at different times; the older one has already expired,
\* the newer one expires exactly when the key does
C20_Witness ==
    \E c, d \in DOMAIN record :
        /\ ExpiryTick(record[c]) <= now
        /\ ExpiryTick(record[d]) = ttl
        /\ ExpiryTick(record[c]) < ExpiryTick(record[d])

====
